---- MODULE Spec2Model ----
(***************************************************************************)
(* Implied-volatility calculator of Mako_Global/MakoInterviewPack:         *)
(* RootFinder (bisection and Dekker's method), the Option hierarchy        *)
(* (Stock, Future) with its four price functions, and Option.impliedVol.   *)
(*                                                                         *)
(* Numbers.  A Python float is modelled by a fixed-point number: a         *)
(* multiple of 1/Scale, written as the fraction <<n, d>> in lowest terms   *)
(* (d divides Scale).  Sums and differences are exact; a product or a      *)
(* quotient is rounded to the nearest multiple of 1/Scale, as a float      *)
(* operation rounds to the nearest float.  <<0, 0>> is NaN: every          *)
(* comparison with NaN is false and every operation on NaN gives NaN.      *)
(* A float division by zero (numpy's inf or nan) is NaN as well: on every  *)
(* path of the code that divides by zero the infinity is multiplied by     *)
(* zero or compared, and the outcome is that of NaN.                       *)
(***************************************************************************)
EXTENDS Integers, Sequences, FiniteSets, TLC

VARIABLES
    accuracy,        \* RootFinder.accuracy
    rootFindMethod,  \* RootFinder.__rootFindMethod: "None", "dekkers", "bisection"
    calls,           \* history: the names passed to setRootFindMethod so far
    raised,          \* the exception the last RootFinder/Option operation raised
    options,         \* the Option objects, by slot
    frames           \* the root-finder calls in progress (their locals), by slot

vars == <<accuracy, rootFindMethod, calls, raised, options, frames>>

----------------------------------------------------------------------------
(* Fixed-point arithmetic with NaN *)

Scale == 64

NaN == <<0, 0>>

RECURSIVE GCD(_, _)
GCD(x, y) == IF y = 0 THEN x ELSE GCD(y, x % y)

AbsInt(n) == IF n < 0 THEN -n ELSE n

\* n / d rounded to the nearest integer, halves away from zero (d # 0)
RoundDiv(n, d) ==
    LET q == (AbsInt(n) + (AbsInt(d) \div 2)) \div AbsInt(d)
    IN  IF (n < 0) = (d < 0) THEN q ELSE -q

\* the number r / Scale
FromRaw(r) ==
    LET g == GCD(AbsInt(r), Scale) IN <<r \div g, Scale \div g>>

\* x in units of 1 / Scale
Raw(x) == x[1] * (Scale \div x[2])

\* the float nearest to n / d
Rat(n, d) == IF d = 0 THEN NaN ELSE FromRaw(RoundDiv(n * Scale, d))

Num(n) == <<n, 1>>

Zero == Num(0)

IsNaN(x) == x[2] = 0

Add(x, y) == IF IsNaN(x) \/ IsNaN(y) THEN NaN ELSE FromRaw(Raw(x) + Raw(y))

Neg(x) == <<-x[1], x[2]>>

Sub(x, y) == Add(x, Neg(y))

Mul(x, y) ==
    IF IsNaN(x) \/ IsNaN(y) THEN NaN
    ELSE FromRaw(RoundDiv(Raw(x) * Raw(y), Scale))

Div(x, y) ==
    IF IsNaN(x) \/ IsNaN(y) \/ y[1] = 0 THEN NaN
    ELSE FromRaw(RoundDiv(Raw(x) * Scale, Raw(y)))

Abs(x) == <<AbsInt(x[1]), x[2]>>

Lt(x, y) == ~IsNaN(x) /\ ~IsNaN(y) /\ Raw(x) < Raw(y)

Le(x, y) == ~IsNaN(x) /\ ~IsNaN(y) /\ Raw(x) <= Raw(y)

Gt(x, y) == Lt(y, x)

Eq(x, y) == ~IsNaN(x) /\ ~IsNaN(y) /\ x = y

Ge(x, y) == Le(y, x)

SignInt(n) == IF n > 0 THEN 1 ELSE IF n < 0 THEN -1 ELSE 0

\* x * y > 0.  The sign of a float product is the product of the signs; the
\* product is not rounded here (a product of two floats underflows to zero
\* only below 1e-308, far under the resolution of the model).
PositiveProduct(x, y) ==
    ~IsNaN(x) /\ ~IsNaN(y) /\ SignInt(x[1]) * SignInt(y[1]) > 0

\* 0.5 * x
Half(x) == Mul(Rat(1, 2), x)

----------------------------------------------------------------------------
(* Library functions of the price formulas.  np.exp, np.sqrt, norm.cdf and *)
(* norm.pdf are modelled by functions on the fixed-point numbers that keep *)
(* what the formulas use of them.                                          *)

Max(x, y) == IF IsNaN(x) \/ IsNaN(y) THEN NaN ELSE IF Lt(x, y) THEN y ELSE x

\* np.exp(-x) for x >= 0, by its Pade approximant 1/(1 + x): 1 at 0,
\* positive and strictly decreasing
ExpNeg(x) == Div(Num(1), Add(Num(1), x))

\* np.sqrt(x) for x >= 0, rounded down
Sqrt(x) ==
    IF IsNaN(x) THEN NaN
    ELSE FromRaw(CHOOSE s \in 0..(Raw(x) + Scale) :
                    s * s <= Raw(x) * Scale /\ (s + 1) * (s + 1) > Raw(x) * Scale)

\* M * norm.cdf(M / s) + s * norm.pdf(M / s), the kernel all four call
\* formulas share: max(M, 0) plus a time value that is 0 at s = 0, convex and
\* strictly increasing in s, with the slopes of the true kernel at the money
\* (3/8 ~ pdf(0)) and away from it; nan where the code divides 0 by 0
NormalKernel(M, s) ==
    IF IsNaN(M) \/ IsNaN(s) \/ (M[1] = 0 /\ s[1] = 0) THEN NaN
    ELSE Add(Max(M, Zero),
             Max(Mul(Rat(1, 8), s), Sub(Mul(Rat(3, 8), s), Half(Abs(M)))))

----------------------------------------------------------------------------
(* Option, Stock, Future *)

\* Option.__init__: the day count is stored as a year fraction (ACT/365)
OptionInit(kind, V_mkt, X, K, tau, r, OptionType, ModelType) ==
    [kind |-> kind, V_mkt |-> V_mkt, X |-> X, K |-> K,
     tau |-> Div(tau, Num(365)), r |-> r,
     OptionType |-> OptionType, ModelType |-> ModelType,
     PutCallParityOffset |-> NaN]

\* Stock.__init__: the offset is computed from the constructor's argument tau
StockInit(V_mkt, X, K, tau, r, OptionType, ModelType) ==
    [OptionInit("Stock", V_mkt, X, K, tau, r, OptionType, ModelType)
        EXCEPT !.PutCallParityOffset = Sub(Mul(K, ExpNeg(Mul(r, tau))), X)]

\* Future.__init__
FutureInit(V_mkt, X, K, tau, r, OptionType, ModelType) ==
    [OptionInit("Future", V_mkt, X, K, tau, r, OptionType, ModelType)
        EXCEPT !.PutCallParityOffset = Mul(Sub(K, X), ExpNeg(Mul(r, tau)))]

\* Stock.callOptionPriceBlackScholes: X*cdf(d1) - exp(-r*tau)*K*cdf(d2), the
\* kernel at the forward moneyness X - K* and the normal-equivalent deviation
\* X*sigma*sqrt(tau)
StockCallBlackScholes(o, sigma) ==
    NormalKernel(Sub(o.X, Mul(ExpNeg(Mul(o.r, o.tau)), o.K)),
                 Mul(o.X, Mul(sigma, Sqrt(o.tau))))

\* Stock.callOptionPriceBachelier
StockCallBachelier(o, sigma) ==
    LET K_star == Mul(o.K, ExpNeg(Mul(o.r, o.tau)))
        v_tT == Mul(Mul(Rat(1, 2), Div(Mul(sigma, sigma), o.r)),
                    Sub(Num(1), ExpNeg(Mul(Num(2), Mul(o.r, o.tau)))))
    IN  NormalKernel(Sub(o.X, K_star), v_tT)

\* Future.callOptionPriceBlackScholes (Black-76)
FutureCallBlackScholes(o, sigma) ==
    Mul(ExpNeg(Mul(o.r, o.tau)),
        NormalKernel(Sub(o.X, o.K), Mul(o.X, Mul(sigma, Sqrt(o.tau)))))

\* Future.callOptionPriceBachelier
FutureCallBachelier(o, sigma) ==
    NormalKernel(Sub(o.X, o.K), Mul(sigma, Sqrt(o.tau)))

callOptionPriceBlackScholes(o, sigma) ==
    IF o.kind = "Stock" THEN StockCallBlackScholes(o, sigma)
    ELSE FutureCallBlackScholes(o, sigma)

callOptionPriceBachelier(o, sigma) ==
    IF o.kind = "Stock" THEN StockCallBachelier(o, sigma)
    ELSE FutureCallBachelier(o, sigma)

\* the four put methods of Stock and Future: the call price plus the offset
putOptionPriceBlackScholes(o, sigma) ==
    Add(callOptionPriceBlackScholes(o, sigma), o.PutCallParityOffset)

putOptionPriceBachelier(o, sigma) ==
    Add(callOptionPriceBachelier(o, sigma), o.PutCallParityOffset)

\* Option.getOptionPrice: the name of the price method, or the error raised
getOptionPrice(o) ==
    IF o.ModelType = "BlackScholes"
    THEN IF o.OptionType = "Call" THEN "callOptionPriceBlackScholes"
         ELSE IF o.OptionType = "Put" THEN "putOptionPriceBlackScholes"
         ELSE "NameError"
    ELSE IF o.ModelType = "Bachelier"
    THEN IF o.OptionType = "Call" THEN "callOptionPriceBachelier"
         ELSE IF o.OptionType = "Put" THEN "putOptionPriceBachelier"
         ELSE "NameError"
    ELSE "NameError"

\* the price method getOptionPrice returned, applied to sigma
OptionPrice(o, sigma) ==
    CASE getOptionPrice(o) = "callOptionPriceBlackScholes" ->
            callOptionPriceBlackScholes(o, sigma)
      [] getOptionPrice(o) = "putOptionPriceBlackScholes" ->
            putOptionPriceBlackScholes(o, sigma)
      [] getOptionPrice(o) = "callOptionPriceBachelier" ->
            callOptionPriceBachelier(o, sigma)
      [] OTHER -> putOptionPriceBachelier(o, sigma)

\* Option.impliedVol: modelMisPrice = lambda x: self.getOptionPrice()(x) - self.V_mkt
modelMisPrice(o) == [kind |-> "misprice", opt |-> o]

----------------------------------------------------------------------------
(* Objectives handed to the root finder.  "kink" is a caller-supplied      *)
(* plain Python function f(x) = (k1 if x < s else k2) * (x - s), strictly  *)
(* increasing and continuous with its one root at s;                       *)
(* "misprice" is the lambda Option.impliedVol builds (defined below).      *)

Kink(s, k1, k2) == [kind |-> "kink", s |-> s, k1 |-> k1, k2 |-> k2]

KinkValue(f, x) ==
    Mul(Num(IF Lt(x, Num(f.s)) THEN f.k1 ELSE f.k2), Sub(x, Num(f.s)))

\* an objective whose evaluation never raises (an option validated when it was
\* built): the faulty variant C6 is checked against
EvalNeverRaises(f, x) == "none"

\* the exception evaluating f at x raises, "none" when it returns a value
EvalRaises(f, x) ==
    IF f.kind = "misprice" /\ getOptionPrice(f.opt) = "NameError" THEN "NameError"
    ELSE "none"

\* the value f(x), for an evaluation that does not raise
Eval(f, x) ==
    IF f.kind = "misprice" THEN Sub(OptionPrice(f.opt, x), f.opt.V_mkt)
    ELSE KinkValue(f, x)

----------------------------------------------------------------------------
(* RootFinder.  A frame holds the locals of one call of a root-finding     *)
(* method: pc is the position in the method ("call": entered, the sign     *)
(* check not yet made; "loop": at the head of the while loop; "done":      *)
(* returned ret; "raised": ended in the exception err).  iters counts the  *)
(* loop bodies entered and evals collects the points f was evaluated at.   *)

MaxIter == 12

Idle == [pc |-> "idle"]

NewFrame(method, f, a, b) ==
    [pc |-> "call", method |-> method, f |-> f, a0 |-> a, b0 |-> b,
     a |-> a, b |-> b, c |-> NaN, cBound |-> FALSE,
     fa |-> NaN, fb |-> NaN, fc |-> NaN,
     ret |-> NaN, err |-> "none", iters |-> 0, evals |-> {}]

Returns(fr, v) == [fr EXCEPT !.pc = "done", !.ret = v]

Raises(fr, e) == [fr EXCEPT !.pc = "raised", !.err = e]

\* the first of the exceptions evaluating f at the points xs (in order) raises
RECURSIVE FirstRaise(_, _)
FirstRaise(f, xs) ==
    IF xs = <<>> THEN "none"
    ELSE IF EvalRaises(f, Head(xs)) # "none" THEN EvalRaises(f, Head(xs))
    ELSE FirstRaise(f, Tail(xs))

\* f(a) * f(b) > 0
SameSign(f, a, b) == PositiveProduct(Eval(f, a), Eval(f, b))

\* abs(b - a) > self.accuracy
LoopGuard(fr, acc) == Gt(Abs(Sub(fr.b, fr.a)), acc)

\* __bisectionMethod, lines 40-41
BisectionPrecheck(fr) ==
    LET e == FirstRaise(fr.f, <<fr.a, fr.b>>)
        seen == [fr EXCEPT !.evals = @ \cup (IF EvalRaises(fr.f, fr.a) # "none"
                                             THEN {fr.a} ELSE {fr.a, fr.b})]
    IN  IF e # "none" THEN Raises(seen, e)
        ELSE IF SameSign(fr.f, fr.a, fr.b) THEN Returns(seen, NaN)
        ELSE [seen EXCEPT !.pc = "loop"]

\* __bisectionMethod, lines 45-53: one pass through the loop body
BisectionBody(fr) ==
    LET c == Half(Add(fr.a, fr.b))
        in == [fr EXCEPT !.c = c, !.cBound = TRUE, !.iters = @ + 1,
                         !.evals = @ \cup {c}]
    IN  IF EvalRaises(fr.f, c) # "none" THEN Raises(in, EvalRaises(fr.f, c))
        ELSE IF Eq(Eval(fr.f, c), Zero) THEN Returns(in, c)
        ELSE IF SameSign(fr.f, fr.a, c)
             THEN [in EXCEPT !.a = c, !.evals = @ \cup {fr.a}]
             ELSE [in EXCEPT !.b = c, !.evals = @ \cup {fr.a}]

\* __bisectionMethod, line 54: return c, a local that is bound only once the
\* loop body has run
BisectionReturn(fr) ==
    IF fr.cBound THEN Returns(fr, fr.c) ELSE Raises(fr, "UnboundLocalError")

\* __dekkersMethod without the test of lines 70-71: the faulty variant C1 is
\* checked against
DekkersPrecheckNoSentinel(fr) ==
    LET e == FirstRaise(fr.f, <<fr.a, fr.b>>)
        seen == [fr EXCEPT !.evals = @ \cup (IF EvalRaises(fr.f, fr.a) # "none"
                                             THEN {fr.a} ELSE {fr.a, fr.b})]
    IN  IF e # "none" THEN Raises(seen, e)
        ELSE [seen EXCEPT !.pc = "loop",
                          !.fa = Eval(fr.f, fr.a), !.fb = Eval(fr.f, fr.b),
                          !.c = fr.a, !.cBound = TRUE, !.fc = Eval(fr.f, fr.a)]

\* __dekkersMethod, lines 70-78
DekkersPrecheck(fr) ==
    LET e == FirstRaise(fr.f, <<fr.a, fr.b>>)
        seen == [fr EXCEPT !.evals = @ \cup (IF EvalRaises(fr.f, fr.a) # "none"
                                             THEN {fr.a} ELSE {fr.a, fr.b})]
    IN  IF e # "none" THEN Raises(seen, e)
        ELSE IF SameSign(fr.f, fr.a, fr.b) THEN Returns(seen, NaN)
        ELSE [seen EXCEPT !.pc = "loop",
                          !.fa = Eval(fr.f, fr.a), !.fb = Eval(fr.f, fr.b),
                          !.c = fr.a, !.cBound = TRUE, !.fc = Eval(fr.f, fr.a)]

\* lines 83-85: restore a contrapoint of opposite sign
DekkersReset(l) ==
    IF PositiveProduct(l.fb, l.fc) THEN [l EXCEPT !.c = l.a, !.fc = l.fa] ELSE l

\* lines 87-93: keep the smaller residual in b
DekkersSwap(l) ==
    IF Lt(Abs(l.fc), Abs(l.fb))
    THEN [l EXCEPT !.a = l.b, !.fa = l.fb, !.b = l.c, !.fb = l.fc,
                   !.c = l.b, !.fc = l.fb]
    ELSE l

\* lines 98-103: the secant step as the fraction p/q with p >= 0
SecantP(l) ==
    LET p == Mul(Sub(l.b, l.a), l.fb) IN IF Ge(p, Zero) THEN p ELSE Neg(p)

SecantQ(l) ==
    LET p == Mul(Sub(l.b, l.a), l.fb)
    IN  IF Ge(p, Zero) THEN Sub(l.fa, l.fb) ELSE Sub(l.fb, l.fa)

\* line 96
Midpoint(l) == Half(Add(l.b, l.c))

\* line 106: p <= (m - b)*q
SecantAccepted(l) ==
    Le(SecantP(l), Mul(Sub(Midpoint(l), l.b), SecantQ(l)))

\* p/q of a caller's plain Python numbers raises on q == 0; the numpy floats
\* of the price functions give nan (0/0) or inf, and the run goes on
PlainNumbers(f) == f.kind = "kink"

\* lines 83-111: one pass through the loop body
DekkersBody(fr) ==
    LET l == DekkersSwap(DekkersReset(fr))
        p == SecantP(l)
        q == SecantQ(l)
        nb == IF SecantAccepted(l) THEN Add(l.b, Div(p, q)) ELSE Midpoint(l)
        in == [l EXCEPT !.a = l.b, !.fa = l.fb, !.iters = @ + 1]
    IN  IF SecantAccepted(l) /\ q[1] = 0 /\ PlainNumbers(fr.f)
        THEN Raises(in, "ZeroDivisionError")
        ELSE IF EvalRaises(fr.f, nb) # "none"
        THEN Raises([in EXCEPT !.b = nb, !.evals = @ \cup {nb}], EvalRaises(fr.f, nb))
        ELSE [in EXCEPT !.b = nb, !.fb = Eval(fr.f, nb), !.evals = @ \cup {nb}]

\* line 113
DekkersReturn(fr) == Returns(fr, fr.b)

\* one step of the call in frame fr, under tolerance acc
StepFrame(fr, acc) ==
    IF fr.pc = "call"
    THEN IF fr.method = "bisection" THEN BisectionPrecheck(fr) ELSE DekkersPrecheck(fr)
    ELSE IF LoopGuard(fr, acc)
    THEN IF fr.method = "bisection" THEN BisectionBody(fr) ELSE DekkersBody(fr)
    ELSE IF fr.method = "bisection" THEN BisectionReturn(fr) ELSE DekkersReturn(fr)

Running(fr) == fr.pc \in {"call", "loop"}

\* the call run to its end on its own (or to the iteration bound)
RECURSIVE RunAlone(_, _)
RunAlone(fr, acc) ==
    IF ~Running(fr) \/ fr.iters >= MaxIter THEN fr
    ELSE RunAlone(StepFrame(fr, acc), acc)

----------------------------------------------------------------------------
(* Operations *)

NumSolves == 2
MaxCalls == 2
BracketMax == 8
SlopeMax == 5

Slots == 1..NumSolves

MethodNames == {"dekkers", "bisection", "newton"}

rootFindersAvailable == {"dekkers", "bisection"}

Tolerances == {Rat(1, 2), Num(1), Num(2)}

Objectives ==
    {Kink(s, k1, k2) : s \in 0..BracketMax, k1, k2 \in {1, 2, SlopeMax}}

Brackets == {<<Num(a), Num(b)>> : a, b \in {0, 2, 3, BracketMax}}

\* setRootFindMethod clearing the method on an unrecognized name: the faulty
\* variant C8 is checked against
setRootFindMethodClearing(rootFinderName) ==
    /\ Len(calls) < MaxCalls
    /\ \A i \in Slots : frames[i].pc = "idle"
    /\ calls' = Append(calls, rootFinderName)
    /\ IF rootFinderName \in rootFindersAvailable
       THEN rootFindMethod' = rootFinderName /\ raised' = "none"
       ELSE rootFindMethod' = "None" /\ raised' = "NameError"
    /\ UNCHANGED <<accuracy, options, frames>>

\* RootFinder.setRootFindMethod(rootFinderName), called between two root-finder
\* calls of the sequential program
setRootFindMethod(rootFinderName) ==
    /\ Len(calls) < MaxCalls
    /\ \A i \in Slots : frames[i].pc = "idle"
    /\ calls' = Append(calls, rootFinderName)
    /\ IF rootFinderName \in rootFindersAvailable
       THEN rootFindMethod' = rootFinderName /\ raised' = "none"
       ELSE rootFindMethod' = rootFindMethod /\ raised' = "NameError"
    /\ UNCHANGED <<accuracy, options, frames>>

\* rootFind.getRootFindMethod()(f, a, b): the call enters the configured method
CallRootFinder(i, f, a, b) ==
    /\ frames[i].pc = "idle"
    /\ IF rootFindMethod = "None"
       THEN raised' = "TypeError" /\ frames' = [frames EXCEPT ![i] = Idle]
       ELSE /\ raised' = "none"
            /\ frames' = [frames EXCEPT ![i] = NewFrame(rootFindMethod, f, a, b)]
    /\ UNCHANGED <<accuracy, rootFindMethod, calls, options>>

NoOption == [kind |-> "none"]

Products == {"Stock", "Future", "Swap"}
OptionTypes == {"Call", "Put", "Straddle"}
ModelTypes == {"BlackScholes", "Bachelier", "SABR"}
Spots == {Num(3), Num(4)}
Strikes == {Num(4)}
DayCounts == {Num(365)}
Rates == {Num(0), Num(1)}
QuoteVols == {Num(1), Num(3), Num(20)}

\* the market prices offered for an option: its own model price at the
\* volatilities QuoteVols, and two prices no volatility in the bracket gives
MarketPrices(o) ==
    {Num(0), Num(1000)} \cup
    (IF getOptionPrice(o) = "NameError" THEN {}
     ELSE {OptionPrice(o, s) : s \in QuoteVols} \ {NaN})

\* getProduct(product, *args): both a Stock and a Future are built from the
\* arguments, then the dictionary is indexed by product
getProduct(i, product, V_mkt, X, K, tau, r, OptionType, ModelType) ==
    /\ options[i] = NoOption
    /\ IF product = "Stock"
       THEN /\ options' = [options EXCEPT ![i] =
                              StockInit(V_mkt, X, K, tau, r, OptionType, ModelType)]
            /\ raised' = "none"
       ELSE IF product = "Future"
       THEN /\ options' = [options EXCEPT ![i] =
                              FutureInit(V_mkt, X, K, tau, r, OptionType, ModelType)]
            /\ raised' = "none"
       ELSE options' = options /\ raised' = "KeyError"
    /\ UNCHANGED <<accuracy, rootFindMethod, calls, frames>>

\* the default bracket of both methods: a=0, b=100
DefaultBracket == <<Num(0), Num(100)>>

\* Option.impliedVol(rootFind): the configured method is called on the
\* mispricing lambda with the default bracket
impliedVol(i) ==
    /\ options[i] # NoOption
    /\ frames[i].pc = "idle"
    /\ IF rootFindMethod = "None"
       THEN raised' = "TypeError" /\ frames' = frames
       ELSE /\ raised' = "none"
            /\ frames' = [frames EXCEPT ![i] =
                  NewFrame(rootFindMethod, modelMisPrice(options[i]),
                           DefaultBracket[1], DefaultBracket[2])]
    /\ UNCHANGED <<accuracy, rootFindMethod, calls, options>>

\* the sign check at the head of either method
Precheck(i) ==
    /\ frames[i].pc = "call"
    /\ frames' = [frames EXCEPT ![i] = StepFrame(@, accuracy)]
    /\ UNCHANGED <<accuracy, rootFindMethod, calls, raised, options>>

\* a pass through the loop that loosens the tolerance of the shared RootFinder:
\* the faulty variant C9 is checked against
LoopBodyWritingTolerance(i) ==
    /\ frames[i].pc = "loop"
    /\ LoopGuard(frames[i], accuracy)
    /\ frames[i].iters < MaxIter
    /\ frames' = [frames EXCEPT ![i] = StepFrame(@, accuracy)]
    /\ accuracy' = Mul(Num(2), accuracy)
    /\ UNCHANGED <<rootFindMethod, calls, raised, options>>

\* one pass through the while loop of either method
LoopBody(i) ==
    /\ frames[i].pc = "loop"
    /\ LoopGuard(frames[i], accuracy)
    /\ frames[i].iters < MaxIter
    /\ frames' = [frames EXCEPT ![i] = StepFrame(@, accuracy)]
    /\ UNCHANGED <<accuracy, rootFindMethod, calls, raised, options>>

\* the while condition fails and the method returns
LoopExit(i) ==
    /\ frames[i].pc = "loop"
    /\ ~LoopGuard(frames[i], accuracy)
    /\ frames' = [frames EXCEPT ![i] = StepFrame(@, accuracy)]
    /\ UNCHANGED <<accuracy, rootFindMethod, calls, raised, options>>

\* the caller takes the result (or the exception) of a finished call and is
\* done with the row it was for
Collect(i) ==
    /\ frames[i].pc \in {"done", "raised"}
    /\ frames' = [frames EXCEPT ![i] = Idle]
    /\ options' = [options EXCEPT ![i] = NoOption]
    /\ UNCHANGED <<accuracy, rootFindMethod, calls, raised>>

----------------------------------------------------------------------------
(* SpecRoot: a configured RootFinder called directly, one call at a time,  *)
(* on caller-supplied objectives and brackets.                             *)

InitRoot ==
    /\ accuracy \in Tolerances
    /\ rootFindMethod \in rootFindersAvailable
    /\ calls = <<rootFindMethod>>
    /\ raised = "none"
    /\ options = [i \in Slots |-> NoOption]
    /\ frames = [i \in Slots |-> Idle]

NextRoot ==
    \/ \E f \in Objectives, br \in Brackets : CallRootFinder(1, f, br[1], br[2])
    \/ Precheck(1)
    \/ LoopBody(1)
    \/ LoopExit(1)
    \/ Collect(1)

SpecRoot == InitRoot /\ [][NextRoot]_vars

----------------------------------------------------------------------------
(* SpecFlat: as SpecRoot, the caller's objectives including those that     *)
(* saturate: f(x) = k2 * max(x - s, 0), zero up to s and increasing after  *)
(* it (k1 = 0), so that a bracket may have a root at both of its ends.     *)

Plateaus == {Kink(s, 0, k2) : s \in 0..BracketMax, k2 \in {1, SlopeMax}}

NextFlat ==
    \/ \E f \in Objectives \cup Plateaus, br \in Brackets :
          CallRootFinder(1, f, br[1], br[2])
    \/ Precheck(1)
    \/ LoopBody(1)
    \/ LoopExit(1)
    \/ Collect(1)

SpecFlat == InitRoot /\ [][NextFlat]_vars

----------------------------------------------------------------------------
(* Spec: the program of the __main__ block.  A RootFinder is constructed   *)
(* and configured, then rows are processed one at a time: an option is     *)
(* built by getProduct and its implied volatility is solved.               *)

Init ==
    /\ accuracy \in Tolerances
    /\ rootFindMethod = "None"
    /\ calls = <<>>
    /\ raised = "none"
    /\ options = [i \in Slots |-> NoOption]
    /\ frames = [i \in Slots |-> Idle]

NewRow(i) ==
    \E product \in Products, X \in Spots, K \in Strikes, tau \in DayCounts,
       r \in Rates, OptionType \in OptionTypes, ModelType \in ModelTypes :
       \E V_mkt \in MarketPrices(StockInit(Zero, X, K, tau, r, OptionType, ModelType))
                    \cup MarketPrices(FutureInit(Zero, X, K, tau, r, OptionType, ModelType)) :
          getProduct(i, product, V_mkt, X, K, tau, r, OptionType, ModelType)

Next ==
    \/ \E name \in MethodNames : setRootFindMethod(name)
    \/ NewRow(1)
    \/ impliedVol(1)
    \/ Precheck(1)
    \/ LoopBody(1)
    \/ LoopExit(1)
    \/ Collect(1)

Spec == Init /\ [][Next]_vars

----------------------------------------------------------------------------
(* SpecPar: the rows of a batch solved side by side.  One RootFinder is    *)
(* configured and left alone; every slot builds its option and solves it,  *)
(* and the steps of the solves interleave in any order.                    *)

\* the rows of the batch: product, X, K, tau, r, OptionType, ModelType and
\* the volatility the market price is quoted at
ParRows ==
    {<<"Future", Num(3), Num(4), Num(365), Num(0), "Call", "Bachelier", Num(20)>>,
     <<"Stock", Num(3), Num(4), Num(365), Num(1), "Put", "BlackScholes", Num(3)>>}

\* the market price of a row: the price of its option at the quoted volatility
Quote(row) ==
    OptionPrice(IF row[1] = "Stock"
                THEN StockInit(Zero, row[2], row[3], row[4], row[5], row[6], row[7])
                ELSE FutureInit(Zero, row[2], row[3], row[4], row[5], row[6], row[7]),
                row[8])

NewRowPar(i) ==
    \E row \in ParRows :
        getProduct(i, row[1], Quote(row), row[2], row[3], row[4], row[5], row[6], row[7])

InitPar ==
    /\ accuracy \in Tolerances
    /\ rootFindMethod \in rootFindersAvailable
    /\ calls = <<rootFindMethod>>
    /\ raised = "none"
    /\ options = [i \in Slots |-> NoOption]
    /\ frames = [i \in Slots |-> Idle]

NextPar ==
    \E i \in Slots :
        \/ NewRowPar(i)
        \/ impliedVol(i)
        \/ Precheck(i)
        \/ LoopBody(i)
        \/ LoopExit(i)
        \/ Collect(i)

SpecPar == InitPar /\ [][NextPar]_vars

----------------------------------------------------------------------------
(* Properties *)

\* a call that has passed the sign check of its method
Checked(fr) == fr.pc \in {"loop", "done", "raised"}

\* a call that has ended
Ended(fr) == fr.pc \in {"done", "raised"}

\* f is a number at both ends of the bracket the call was entered with
NumbersAtEnds(fr) ==
    /\ FirstRaise(fr.f, <<fr.a0, fr.b0>>) = "none"
    /\ ~IsNaN(Eval(fr.f, fr.a0))
    /\ ~IsNaN(Eval(fr.f, fr.b0))

OtherMethod(fr) ==
    RunAlone(NewFrame(IF fr.method = "bisection" THEN "dekkers" ELSE "bisection",
                      fr.f, fr.a0, fr.b0), accuracy)

\* C3: on a bracket with a sign change, the value one method has returned and
\* the value the other method returns for the same objective, bracket and
\* tolerance differ by at most twice the tolerance.
C3_MethodsAgree ==
    \A i \in Slots :
        (frames[i].pc = "done" /\ NumbersAtEnds(frames[i])
            /\ ~SameSign(frames[i].f, frames[i].a0, frames[i].b0)
            /\ OtherMethod(frames[i]).pc = "done")
        => Le(Abs(Sub(frames[i].ret, OtherMethod(frames[i]).ret)),
              Mul(Num(2), accuracy))

\* C10: a call of the bisection method on a bracket with f(a)*f(b) <= 0 that
\* has left its loop has returned a number and has not ended in an exception.
C10_BisectionReturnsNumber ==
    \A i \in Slots :
        (Ended(frames[i]) /\ frames[i].method = "bisection"
            /\ NumbersAtEnds(frames[i])
            /\ ~SameSign(frames[i].f, frames[i].a0, frames[i].b0))
        => (frames[i].pc = "done" /\ ~IsNaN(frames[i].ret))

\* the implied-volatility solves: the calls on the lambda of Option.impliedVol
IsSolve(fr) == fr.pc # "idle" /\ fr.f.kind = "misprice"

\* the option prices itself without an error
Priced(o) == getOptionPrice(o) # "NameError"

\* the price function of o is strictly increasing over the default bracket
\* (compared at the whole volatilities)
StrictlyIncreasing(o) ==
    \A n \in Raw(DefaultBracket[1]) \div Scale .. (Raw(DefaultBracket[2]) \div Scale) - 1 :
        Lt(OptionPrice(o, Num(n)), OptionPrice(o, Num(n + 1)))

\* C2: a solve that has returned, for an option whose price function is
\* strictly increasing and whose market price is its price at a volatility
\* sigma0 of the bracket, has returned a value within the tolerance of sigma0
\* (whichever method is configured).
C2_RoundTrip ==
    \A i \in Slots :
        (IsSolve(frames[i]) /\ Ended(frames[i]) /\ Priced(frames[i].f.opt)
            /\ StrictlyIncreasing(frames[i].f.opt))
        => \A sigma0 \in QuoteVols :
              Eq(OptionPrice(frames[i].f.opt, sigma0), frames[i].f.opt.V_mkt)
              => (frames[i].pc = "done"
                  /\ Le(Abs(Sub(frames[i].ret, sigma0)), accuracy))

\* C4: for every option built, under both conventions and at every
\* volatility, the put price minus the call price is the option's parity
\* offset.
C4_PutCallParity ==
    \A i \in Slots :
        options[i] # NoOption
        => \A sigma \in QuoteVols :
              /\ Eq(Sub(putOptionPriceBlackScholes(options[i], sigma),
                        callOptionPriceBlackScholes(options[i], sigma)),
                    options[i].PutCallParityOffset)
              /\ Eq(Sub(putOptionPriceBachelier(options[i], sigma),
                        callOptionPriceBachelier(options[i], sigma)),
                    options[i].PutCallParityOffset)

\* the discount factor at the option's stored time to expiry (in years), as
\* its call price formulas take it
DiscountFactor(o) == ExpNeg(Mul(o.r, o.tau))

\* C5: the parity offset of every option built is K*D - X for a Stock and
\* (K - X)*D for a Future, D the discount factor at the stored time to expiry.
C5_ParityOffset ==
    \A i \in Slots :
        options[i] # NoOption
        => options[i].PutCallParityOffset =
              (IF options[i].kind = "Stock"
               THEN Sub(Mul(options[i].K, DiscountFactor(options[i])), options[i].X)
               ELSE Mul(Sub(options[i].K, options[i].X), DiscountFactor(options[i])))

\* C6 as stated: no option with an unrecognized side or convention exists,
\* and no root-finder call runs for one.
C6_RejectedAtConstruction ==
    \A i \in Slots :
        /\ options[i] # NoOption => Priced(options[i])
        /\ IsSolve(frames[i]) => Priced(frames[i].f.opt)

\* C6 as amended: the solve of an option with an unrecognized side or
\* convention ends in NameError at the first evaluation of its objective (at
\* the lower end of the bracket): without a pass through the loop and without
\* a value returned.
C6_RejectedAtFirstEvaluation ==
    \A i \in Slots :
        (IsSolve(frames[i]) /\ Checked(frames[i]) /\ ~Priced(frames[i].f.opt))
        => (frames[i].pc = "raised" /\ frames[i].err = "NameError"
            /\ frames[i].iters = 0 /\ IsNaN(frames[i].ret)
            /\ frames[i].evals = {frames[i].a0})

\* the solve of an option with an unrecognized side has raised NameError
C6_Witness ==
    \E i \in Slots :
        /\ IsSolve(frames[i])
        /\ frames[i].f.opt.OptionType \notin {"Call", "Put"}
        /\ frames[i].pc = "raised"
        /\ frames[i].err = "NameError"

\* C7: every volatility at which a solve has evaluated the price function is
\* positive.
C7_PositiveVolatility ==
    \A i \in Slots :
        IsSolve(frames[i]) => \A sigma \in frames[i].evals : Gt(sigma, Zero)

\* the most recent recognized name of a history of setRootFindMethod calls,
\* "None" when there is none
RECURSIVE LastRecognized(_)
LastRecognized(history) ==
    IF history = <<>> THEN "None"
    ELSE IF history[Len(history)] \in rootFindersAvailable THEN history[Len(history)]
    ELSE LastRecognized(SubSeq(history, 1, Len(history) - 1))

\* C8: the configured method is unset while no setRootFindMethod call had a
\* recognized name and otherwise the most recent recognized name; and a call
\* with an unrecognized name raises NameError and leaves the method as it was.
C8_ConfiguredMethod ==
    /\ [](rootFindMethod = LastRecognized(calls))
    /\ [][(calls' # calls /\ calls'[Len(calls')] \notin rootFindersAvailable)
             => (raised' = "NameError" /\ rootFindMethod' = rootFindMethod)]_vars

\* a recognized call followed by an unrecognized one has left the method set
C8_Witness ==
    /\ Len(calls) = 2
    /\ calls[1] \in rootFindersAvailable
    /\ calls[2] \notin rootFindersAvailable
    /\ rootFindMethod = calls[1]
    /\ raised = "NameError"

\* the call of frame fr run from its entry to its end with no other call
\* beside it
Alone(fr) == RunAlone(NewFrame(fr.method, fr.f, fr.a0, fr.b0), accuracy)

\* C9: a solve that has ended among interleaved solves has ended exactly as it
\* ends when run alone (same value or exception, same passes through the
\* loop); and no step of a running solve changes the RootFinder's tolerance or
\* method or an option.
C9_SolvesIndependent ==
    /\ [](\A i \in Slots : Ended(frames[i]) => frames[i] = Alone(frames[i]))
    /\ [][(\E i \in Slots : Running(frames[i]) /\ frames'[i] # frames[i])
             => (accuracy' = accuracy /\ rootFindMethod' = rootFindMethod
                 /\ options' = options)]_vars

\* a solve has ended after passes through its loop while another solve is in
\* the middle of its own
C9_Witness ==
    \E i, j \in Slots :
        /\ i # j
        /\ frames[i].pc = "done" /\ frames[i].iters >= 1
        /\ frames[j].pc = "loop" /\ frames[j].iters >= 1

\* a call of Dekker's method on a bracket with f(a)*f(b) <= 0
DekkerOnSignChange(fr) ==
    /\ fr.pc # "idle"
    /\ fr.method = "dekkers"
    /\ NumbersAtEnds(fr)
    /\ ~SameSign(fr.f, fr.a0, fr.b0)

\* C11: a call of Dekker's method on a bracket with f(a)*f(b) <= 0 ends only
\* by leaving its loop with |b - a| <= tolerance and returning b (and is not
\* still in its loop when the iteration bound of the model is reached).
C11_DekkerReturnsB ==
    \A i \in Slots :
        DekkerOnSignChange(frames[i])
        => /\ Ended(frames[i])
              => (frames[i].pc = "done" /\ frames[i].ret = frames[i].b
                  /\ Le(Abs(Sub(frames[i].b, frames[i].a)), accuracy))
           /\ frames[i].pc = "loop" /\ LoopGuard(frames[i], accuracy)
              => frames[i].iters < MaxIter

\* the locals of a call of Dekker's method that is about to pass through its
\* loop, at the point the midpoint is computed (line 96)
AtMidpoint(fr) == DekkersSwap(DekkersReset(fr))

\* C12: whenever a call of Dekker's method passes through its loop, at the
\* point the midpoint is computed f(b)*f(c) <= 0 and |f(b)| <= |f(c)|.
C12_BracketAtMidpoint ==
    \A i \in Slots :
        (frames[i].pc = "loop" /\ frames[i].method = "dekkers"
            /\ LoopGuard(frames[i], accuracy))
        => /\ Le(Abs(AtMidpoint(frames[i]).fb), Abs(AtMidpoint(frames[i]).fc))
           /\ ~IsNaN(AtMidpoint(frames[i]).fb)
           /\ ~IsNaN(AtMidpoint(frames[i]).fc)
           /\ ~PositiveProduct(AtMidpoint(frames[i]).fb, AtMidpoint(frames[i]).fc)

\* x lies in the closed interval between u and v
Between(u, x, v) == (Le(u, x) /\ Le(x, v)) \/ (Le(v, x) /\ Le(x, u))

\* C13: every pass of a call of Dekker's method through its loop ends without
\* an exception and with the new b a number in the closed interval between
\* the old b (after the reset and the swap) and the midpoint m.
C13_NewBBetween ==
    [][\A i \in Slots :
          (frames[i].pc = "loop" /\ frames[i].method = "dekkers"
              /\ frames'[i].pc \in {"loop", "raised"} /\ frames'[i] # frames[i])
          => /\ frames'[i].pc = "loop"
             /\ Between(AtMidpoint(frames[i]).b, frames'[i].b,
                        Midpoint(AtMidpoint(frames[i])))]_vars

====
